---- MODULE Spec2Model ----
(***************************************************************************)
(* A model of the rendering primitive pipeline of iced:                    *)
(*   - wgpu/src/triangle/msaa.rs    the MSAA target manager                *)
(*   - core/src/text.rs             LineHeight, Content, Renderer          *)
(*   - graphics/src/primitive.rs    the Primitive builders                 *)
(* Each component has its own specification over the same variables; the   *)
(* variables of the other components keep their initial values.            *)
(***************************************************************************)
EXTENDS Integers, Sequences, FiniteSets, TLC

VARIABLES
    \* ---- Msaa (wgpu/src/triangle/msaa.rs)
    format,        \* Msaa.format
    sample_count,  \* Msaa.sample_count
    target,        \* Msaa.target : Option<Target>
    pc,            \* position inside Msaa::target: "idle", "new", "assign", "return"
    args,          \* the arguments of the call in progress, and what it found
    fresh,         \* the value of Target::new(..) not yet assigned to self.target
    ret,           \* the view the last completed call returned
    textures,      \* the descriptors the device was asked to create, in order
    live,          \* the targets (by view) created and not yet dropped
    calls,         \* history: one entry per completed Msaa::target call
    newArgs,       \* history: the arguments Msaa::new was given
    \* ---- LineHeight (core/src/text.rs)
    absCall,       \* the last LineHeight::to_absolute call: arguments and result
    hashed,        \* two hashers: what each was fed by <LineHeight as Hash>::hash
    \* ---- Primitive (graphics/src/primitive.rs)
    scene,         \* the primitives a draw pass has built so far, in order
    built,         \* the last builder call: its arguments and what it returned
    \* ---- Content and Renderer (core/src/text.rs)
    content,       \* a text::Content
    iteration,     \* an iteration over content: the iterator and what it yielded
    renderer,      \* the backend implementing text::Renderer
    widthCall,     \* the last Renderer::measure_width call and the calls it made
    \* ---- RichText (core/src/widget/rich_text.rs)
    widget,        \* a RichText: spans, size, line_height, alignments, shaping
    frame,         \* what one frame hands to layout and draw: renderer, theme, style, bounds
    laidOut,       \* the RichText::layout call of the frame: the measure calls it made
    drawn,         \* the draw call of the frame: the fill_text calls it made
    \* ---- State (winit/src/application/state.rs)
    windowState,   \* the State of the window
    runningApp,    \* what the application now answers: title, mode, background_color, scale_factor
    osWindow,      \* the winit Window: inner_size, scale_factor, current_monitor
    lastCall,      \* history: the last step, and what a State call did to the platform
    inSync         \* history: the application has not changed since State last read it

msaaVars == <<format, sample_count, target, pc, args, fresh, ret, textures,
              live, calls, newArgs>>

lineHeightVars == <<absCall, hashed>>

primitiveVars == <<scene, built>>

contentVars == <<content, iteration>>

rendererVars == <<renderer, widthCall>>

richTextVars == <<widget, frame, laidOut, drawn>>

stateVars == <<windowState, runningApp, osWindow, lastCall, inSync>>

vars == <<msaaVars, lineHeightVars, primitiveVars, contentVars, rendererVars,
          richTextVars, stateVars>>

otherThanMsaa ==
    <<lineHeightVars, primitiveVars, contentVars, rendererVars, richTextVars, stateVars>>

otherThanLineHeight ==
    <<msaaVars, primitiveVars, contentVars, rendererVars, richTextVars, stateVars>>

otherThanPrimitive ==
    <<msaaVars, lineHeightVars, contentVars, rendererVars, richTextVars, stateVars>>

otherThanContent ==
    <<msaaVars, lineHeightVars, primitiveVars, rendererVars, richTextVars, stateVars>>

otherThanRenderer ==
    <<msaaVars, lineHeightVars, primitiveVars, contentVars, richTextVars, stateVars>>

otherThanRichText ==
    <<msaaVars, lineHeightVars, primitiveVars, contentVars, rendererVars, stateVars>>

otherThanState ==
    <<msaaVars, lineHeightVars, primitiveVars, contentVars, rendererVars, richTextVars>>

\* ------------------------------------------------------------------ bounds
MaxCalls == 3   \* Msaa::target calls in one behaviour
MaxDim == 2     \* widths and heights are 1..MaxDim
MaxExp == 2     \* the f32 values tried are 0, inf, NaN and +-2^e, |e| <= MaxExp
MaxBuilds == 3  \* builder calls in one draw pass
MaxChildren == 2 \* primitives side by side in a draw pass
MaxSpans == 3   \* spans of a Content::Spans

\* ------------------------------------------------------------- Option<T>
None == [tag |-> "None"]
Some(x) == [tag |-> "Some", v |-> x]

\* =========================================================================
\* f32, as far as core/src/text.rs uses it.  A value is a zero, an infinity,
\* NaN or a power of two (-1)^sign * 2^exp; on these operands IEEE 754
\* binary32 multiplication is exact unless it overflows or underflows.
\* =========================================================================
F32Zero(sign) == [class |-> "zero", sign |-> sign, exp |-> 0]
F32Inf(sign) == [class |-> "inf", sign |-> sign, exp |-> 0]
F32NaN == [class |-> "nan", sign |-> 0, exp |-> 0]
F32Pow2(sign, exp) == [class |-> "finite", sign |-> sign, exp |-> exp]

F32Values ==
    {F32Zero(s) : s \in {0, 1}} \cup {F32Inf(s) : s \in {0, 1}} \cup {F32NaN}
        \cup {F32Pow2(s, e) : s \in {0, 1}, e \in (-MaxExp)..MaxExp}

IsF32(x) ==
    /\ DOMAIN x = {"class", "sign", "exp"}
    /\ x.class \in {"zero", "inf", "nan", "finite"}
    /\ x.sign \in {0, 1}
    /\ x.class = "finite" => x.exp \in (-149)..127
    /\ x.class # "finite" => x.exp = 0

\* a * b on f32
FMul(a, b) ==
    LET sign == (a.sign + b.sign) % 2 IN
    CASE a.class = "nan" \/ b.class = "nan" -> F32NaN
      [] a.class = "zero" /\ b.class = "inf" -> F32NaN
      [] a.class = "inf" /\ b.class = "zero" -> F32NaN
      [] a.class = "inf" \/ b.class = "inf" -> F32Inf(sign)
      [] a.class = "zero" \/ b.class = "zero" -> F32Zero(sign)
      [] OTHER ->
           IF a.exp + b.exp > 127 THEN F32Inf(sign)
           ELSE IF a.exp + b.exp < -149 THEN F32Zero(sign)
           ELSE F32Pow2(sign, a.exp + b.exp)

\* == on f32 (PartialEq): NaN equals nothing, 0.0 equals -0.0
F32Eq(a, b) ==
    /\ a.class # "nan"
    /\ b.class # "nan"
    /\ \/ a.class = "zero" /\ b.class = "zero"
       \/ a = b

RECURSIVE Pow2(_)
Pow2(n) == IF n = 0 THEN 1 ELSE 2 * Pow2(n - 1)

\* f32::to_bits: the u32 as its sign bit, its 8 exponent bits and its 23
\* fraction bits
ToBits(x) ==
    CASE x.class = "zero" -> [sign |-> x.sign, exponent |-> 0, fraction |-> 0]
      [] x.class = "inf" -> [sign |-> x.sign, exponent |-> 255, fraction |-> 0]
      [] x.class = "nan" -> [sign |-> 0, exponent |-> 255, fraction |-> Pow2(22)]
      [] x.class = "finite" /\ x.exp >= -126 ->
           [sign |-> x.sign, exponent |-> x.exp + 127, fraction |-> 0]
      [] OTHER ->
           [sign |-> x.sign, exponent |-> 0, fraction |-> Pow2(x.exp + 149)]

\* =========================================================================
\* core/src/text.rs: Pixels, LineHeight
\* =========================================================================
\* the tuple struct Pixels(pub f32)
Pixels(x) == [v0 |-> x]

\* f32::from(pixels)
F32FromPixels(pixels) == pixels.v0

PixelsEq(p, q) == F32Eq(p.v0, q.v0)

\* enum LineHeight
Relative(factor) == [tag |-> "Relative", factor |-> factor]
Absolute(pixels) == [tag |-> "Absolute", pixels |-> pixels]

LineHeights ==
    {Relative(f) : f \in F32Values} \cup {Absolute(Pixels(x)) : x \in F32Values}

\* a slip: the multiplication in the wrong arm of the match
to_absolute_unscaled(self, text_size) ==
    IF self.tag = "Relative"
    THEN Pixels(self.factor)
    ELSE Pixels(FMul(self.pixels.v0, text_size.v0))

\* LineHeight::to_absolute
to_absolute(self, text_size) ==
    IF self.tag = "Relative"
    THEN Pixels(FMul(self.factor, text_size.v0))
    ELSE self.pixels

\* #[derive(PartialEq)] on LineHeight
LineHeightEq(a, b) ==
    /\ a.tag = b.tag
    /\ IF a.tag = "Relative"
       THEN F32Eq(a.factor, b.factor)
       ELSE PixelsEq(a.pixels, b.pixels)

\* Hasher::write_u8, and the Hasher::write_u32 that u32::hash calls: a hasher is
\* the sequence of the writes made to it
write_u8(state, byte) == Append(state, [write |-> "u8", value |-> byte])
write_u32(state, bits) == Append(state, [write |-> "u32", value |-> bits])

\* a slip: the payload bits alone, no variant tag
hash_untagged(self, state) ==
    IF self.tag = "Relative"
    THEN write_u32(state, ToBits(self.factor))
    ELSE write_u32(state, ToBits(F32FromPixels(self.pixels)))

\* <LineHeight as Hash>::hash
hash(self, state) ==
    IF self.tag = "Relative"
    THEN write_u32(write_u8(state, 0), ToBits(self.factor))
    ELSE write_u32(write_u8(state, 1), ToBits(F32FromPixels(self.pixels)))

Hashers == {"a", "b"}

\* no to_absolute call made, two fresh hashers
LineHeightRest ==
    /\ absCall = None
    /\ hashed = [h \in Hashers |-> None]

\* =========================================================================
\* graphics/src/primitive.rs: Primitive<T> and its builders
\* =========================================================================
Rectangles ==
    {[x |-> 0, y |-> 0, width |-> 4, height |-> 2],
     [x |-> 1, y |-> 2, width |-> 2, height |-> 2]}

Vectors == {[x |-> 1, y |-> 0], [x |-> 0, y |-> 3]}

\* the leaves a widget hands to the builders: a Primitive::Quad and a
\* Primitive::Custom(T)
Leaves ==
    {[kind |-> "Quad", bounds |-> [x |-> 0, y |-> 0, width |-> 1, height |-> 1]],
     [kind |-> "Custom", custom |-> "Mesh"]}

RECURSIVE Reverse(_)
Reverse(seq) ==
    IF seq = <<>> THEN <<>> ELSE Append(Reverse(Tail(seq)), Head(seq))

\* a slip: the children in the opposite order
group_reversed(primitives) == [kind |-> "Group", primitives |-> Reverse(primitives)]

\* Primitive::group
group(primitives) == [kind |-> "Group", primitives |-> primitives]

\* Primitive::clip
clip(self, bounds) == [kind |-> "Clip", bounds |-> bounds, content |-> self]

\* Primitive::translate
translate(self, translation) ==
    [kind |-> "Translate", translation |-> translation, content |-> self]

\* the number of Clip, Translate and Group nodes of a primitive, of a sequence
\* of primitives: the number of builder calls that made it
RECURSIVE Built(_), BuiltAll(_)
Built(p) ==
    CASE p.kind \in {"Clip", "Translate"} -> 1 + Built(p.content)
      [] p.kind = "Group" -> 1 + BuiltAll(p.primitives)
      [] OTHER -> 0

BuiltAll(ps) == IF ps = <<>> THEN 0 ELSE Built(Head(ps)) + BuiltAll(Tail(ps))

\* no builder called, nothing built
PrimitiveRest ==
    /\ scene = <<>>
    /\ built = None

\* =========================================================================
\* core/src/text.rs: Span, Content, Shaping, Renderer
\* =========================================================================
\* struct Span { content, color, font }
Span(str, color, font) == [content |-> str, color |-> color, font |-> font]

SpanValues ==
    {Span("Hello", "BLACK", "DEFAULT"),
     Span("", "RED", "MONOSPACE"),
     Span("world", "BLACK", "MONOSPACE")}

\* enum Content
ContentSpan(span) == [tag |-> "Span", span |-> span]
ContentSpans(spans) == [tag |-> "Spans", spans |-> spans]

Contents ==
    {ContentSpan(span) : span \in SpanValues} \cup
    {ContentSpans(spans) : spans \in UNION {[1..n -> SpanValues] : n \in 0..MaxSpans}}

Shapings == {"Basic", "Advanced"}

\* a slip: the walk starts at the second span
iter_short(self) ==
    IF self.tag = "Span"
    THEN [kind |-> "Once", item |-> Some(self.span)]
    ELSE [kind |-> "Iter", pos |-> 1, end |-> Len(self.spans)]

\* Content::iter: std::iter::once(span) holds the item until it is taken;
\* spans.iter() walks the borrowed Vec from its first element to its last
iter(self) ==
    IF self.tag = "Span"
    THEN [kind |-> "Once", item |-> Some(self.span)]
    ELSE [kind |-> "Iter", pos |-> 0, end |-> Len(self.spans)]

\* Iterator::next on the boxed iterator: the item (if any) and the iterator after
next(it, self) ==
    IF it.kind = "Once"
    THEN [item |-> it.item, it |-> [it EXCEPT !.item = None]]
    ELSE IF it.pos < it.end
         THEN [item |-> Some(self.spans[it.pos + 1]),
               it |-> [it EXCEPT !.pos = it.pos + 1]]
         ELSE [item |-> None, it |-> it]

\* Size::INFINITY
SizeINFINITY == [width |-> F32Inf(0), height |-> F32Inf(0)]

Renderers == {"wgpu", "tiny_skia"}

\* Renderer::measure, which each backend implements: some function of the
\* backend and the arguments, kept uninterpreted
measure(self, c, size, line_height, bounds, shaping) ==
    [width |-> <<"measure.width", self, c, size, line_height, bounds, shaping>>,
     height |-> <<"measure.height", self, c, size, line_height, bounds, shaping>>]

\* a slip: size taken as a relative line height
measure_width_relative(c, size, shaping) ==
    [content |-> c, size |-> size, line_height |-> Relative(size),
     bounds |-> SizeINFINITY, shaping |-> shaping]

\* Renderer::measure_width: the arguments of its call to self.measure
measure_width_args(c, size, shaping) ==
    [content |-> c, size |-> size, line_height |-> Absolute(Pixels(size)),
     bounds |-> SizeINFINITY, shaping |-> shaping]

\* Renderer::measure_width: what it returns of the measured bounds
measure_width_result(bounds) == bounds.width

\* no content iterated
ContentRest ==
    /\ content = ContentSpans(<<>>)
    /\ iteration = None

\* no width measured
RendererRest ==
    /\ renderer = "wgpu"
    /\ widthCall = None

\* =========================================================================
\* core/src/widget/rich_text.rs: Span, RichText, layout, draw
\* =========================================================================
\* struct Span { content, style, font: Option<Font> } of the widget
RichSpan(str, style, font) == [content |-> str, style |-> style, font |-> font]

RichSpanValues ==
    {RichSpan("Hello", "Default", None),
     RichSpan("", "Accent", Some("MONOSPACE")),
     RichSpan("world", "Accent", None)}

Styles == {"Default", "Accent"}

\* a theme is what its StyleSheet::appearance makes of each style: an
\* Appearance { color: Option<Color> }
Themes == [Styles -> {[color |-> None], [color |-> Some("RED")]}]

appearance(theme, style) == theme[style]

\* renderer::Style { text_color }
RendererStyles == {[text_color |-> "BLACK"], [text_color |-> "WHITE"]}

Horizontals == {"Left", "Center", "Right"}
Verticals == {"Top", "Center", "Bottom"}

\* Rectangle { x, y, width, height }: the bounds of a layout.  The coordinates
\* are whole numbers with even extents, on which the f32 sums and halves taken
\* by draw are exact.
LayoutBounds ==
    {[x |-> 10, y |-> 20, width |-> 100, height |-> 50],
     [x |-> 0, y |-> 3, width |-> 4, height |-> 2]}

\* Rectangle::center_x, Rectangle::center_y
center_x(bounds) == bounds.x + bounds.width \div 2
center_y(bounds) == bounds.y + bounds.height \div 2

\* Renderer::default_font, Renderer::default_size of a backend
default_font(self) == "DEFAULT"
default_size(self) == F32Pow2(0, 4)

\* Option::unwrap_or, Option::unwrap_or_else
unwrap_or(option, default) == IF option.tag = "Some" THEN option.v ELSE default

\* layout::Limits::max of limits.width(self.width).height(self.height), kept
\* uninterpreted
limits_max(limits, width, height) == <<"limits.max", limits, width, height>>

\* struct RichText as RichText::new and its setters can make it
RichTexts ==
    [spans : UNION {[1..n -> RichSpanValues] : n \in 0..MaxSpans},
     size : {None, Some(F32Pow2(0, 5))},
     line_height : {Relative(F32Pow2(0, 0)), Absolute(Pixels(F32Pow2(0, 4)))},
     width : {"Shrink"},
     height : {"Shrink"},
     horizontal_alignment : Horizontals,
     vertical_alignment : Verticals,
     shaping : Shapings]

Frames ==
    [renderer : {"wgpu"},
     theme : Themes,
     style : RendererStyles,
     limits : {"limits"},
     bounds : LayoutBounds]

\* RichText::layout: the text::Span measured for a span of the widget
layout_span_default_font(span, rdr) ==
    Span(span.content, "TRANSPARENT", default_font(rdr))

layout_span(span, rdr) ==
    Span(span.content, "TRANSPARENT", unwrap_or(span.font, default_font(rdr)))

\* RichText::layout: the text::Content measured
layout_content(spans, rdr) ==
    ContentSpans([i \in 1..Len(spans) |-> layout_span(spans[i], rdr)])

\* a slip: every span in the ambient text colour
draw_span_ambient(span, theme, style, rdr) ==
    Span(span.content, style.text_color, unwrap_or(span.font, default_font(rdr)))

\* draw: the text::Span drawn for a span of the widget
draw_span(span, theme, style, rdr) ==
    Span(span.content,
         unwrap_or(appearance(theme, span.style).color, style.text_color),
         unwrap_or(span.font, default_font(rdr)))

HasText(span) == span.content # ""

\* a slip: spans without text are left out
draw_content_nonempty(spans, theme, style, rdr) ==
    LET kept == SelectSeq(spans, HasText) IN
    ContentSpans([i \in 1..Len(kept) |-> draw_span(kept[i], theme, style, rdr)])

\* draw: the text::Content drawn
draw_content(spans, theme, style, rdr) ==
    ContentSpans([i \in 1..Len(spans) |-> draw_span(spans[i], theme, style, rdr)])

\* a slip: the right edge taken to be the width
draw_x_width(horizontal_alignment, bounds) ==
    CASE horizontal_alignment = "Left" -> bounds.x
      [] horizontal_alignment = "Center" -> center_x(bounds)
      [] horizontal_alignment = "Right" -> bounds.width

\* draw: let x = match horizontal_alignment { .. }
draw_x(horizontal_alignment, bounds) ==
    CASE horizontal_alignment = "Left" -> bounds.x
      [] horizontal_alignment = "Center" -> center_x(bounds)
      [] horizontal_alignment = "Right" -> bounds.x + bounds.width

\* draw: let y = match vertical_alignment { .. }
draw_y(vertical_alignment, bounds) ==
    CASE vertical_alignment = "Top" -> bounds.y
      [] vertical_alignment = "Center" -> center_y(bounds)
      [] vertical_alignment = "Bottom" -> bounds.y + bounds.height

\* draw: the crate::Text handed to renderer.fill_text
draw_text(rdr, style, bounds, spans, size, line_height, theme, horizontal_alignment, vertical_alignment, shaping) ==
    [content |-> draw_content(spans, theme, style, rdr),
     size |-> unwrap_or(size, default_size(rdr)),
     line_height |-> line_height,
     bounds |-> [bounds EXCEPT !.x = draw_x(horizontal_alignment, bounds),
                               !.y = draw_y(vertical_alignment, bounds)],
     horizontal_alignment |-> horizontal_alignment,
     vertical_alignment |-> vertical_alignment,
     shaping |-> shaping]

\* one widget, not yet laid out nor drawn
RichTextRest ==
    /\ widget = [spans |-> <<>>, size |-> None,
                 line_height |-> Relative(F32Pow2(0, 0)),
                 width |-> "Shrink", height |-> "Shrink",
                 horizontal_alignment |-> "Left", vertical_alignment |-> "Top",
                 shaping |-> "Basic"]
    /\ frame = [renderer |-> "wgpu", theme |-> [st \in Styles |-> [color |-> None]],
                style |-> [text_color |-> "BLACK"], limits |-> "limits",
                bounds |-> [x |-> 0, y |-> 3, width |-> 4, height |-> 2]]
    /\ laidOut = None
    /\ drawn = None

\* =========================================================================
\* winit/src/application/state.rs: State
\* =========================================================================
\* the f64 value 2^exp.  Scale factors are positive and finite; on powers of
\* two the f64 product is exact and != is inequality of the exponents.
F64Pow2(exp) == [exp |-> exp]

F64Mul(a, b) == F64Pow2(a.exp + b.exp)

F64Ne(a, b) == a.exp # b.exp

ScaleFactors == {F64Pow2(0), F64Pow2(1)}

Titles == {"Counter", "Counter - 1"}

\* enum Mode
Modes == {"Windowed", "Fullscreen"}

Colors == {"BLACK", "WHITE"}

\* what an Application answers to title(), mode(), background_color() and
\* scale_factor()
Applications ==
    [title : Titles, mode : Modes, background_color : Colors,
     scale_factor : ScaleFactors]

\* Size::new, winit::dpi::PhysicalSize
SizeNew(width, height) == [width |-> width, height |-> height]

PhysicalSizes == {SizeNew(800, 600), SizeNew(1600, 1200)}

\* winit::dpi::PhysicalPosition::new
PhysicalPositionNew(x, y) == [x |-> x, y |-> y]

PhysicalPositions == {PhysicalPositionNew(5, 7)}

\* winit::event::ModifiersState; the first is ModifiersState::default()
ModifiersStates == {"empty", "SHIFT"}

\* what a winit Window answers to inner_size(), scale_factor() and
\* current_monitor()
Windows ==
    [inner_size : PhysicalSizes, scale_factor : ScaleFactors,
     current_monitor : {"monitor"}]

\* Viewport::with_physical_size: the viewport keeps the size and the scale
\* factor it was made with
with_physical_size(size, scale_factor) ==
    [physical_size |-> size, scale_factor |-> scale_factor]

\* conversion::fullscreen, kept uninterpreted
fullscreen(monitor, mode) == <<"conversion::fullscreen", monitor, mode>>

\* State::new
new(application, window) ==
    [title |-> application.title,
     mode |-> application.mode,
     background_color |-> application.background_color,
     scale_factor |-> application.scale_factor,
     viewport |->
        LET physical_size == window.inner_size IN
        with_physical_size(SizeNew(physical_size.width, physical_size.height),
                           F64Mul(window.scale_factor, application.scale_factor)),
     cursor_position |-> PhysicalPositionNew(-1, -1),
     modifiers |-> "empty"]

\* winit::event::WindowEvent: the variants State::update matches, and one of
\* those it does not
WindowEvents ==
    {[tag |-> "Resized", new_size |-> sz] : sz \in PhysicalSizes}
    \cup {[tag |-> "ScaleFactorChanged", scale_factor |-> f, new_inner_size |-> sz] :
            f \in ScaleFactors, sz \in PhysicalSizes}
    \cup {[tag |-> "CursorMoved", position |-> pos] : pos \in PhysicalPositions}
    \cup {[tag |-> "CursorLeft"]}
    \cup {[tag |-> "ModifiersChanged", new_modifiers |-> m] : m \in ModifiersStates}
    \cup {[tag |-> "Focused"]}

\* a slip: the scale factor of the application left out of the viewport
update_window_scale(self, window, event) ==
    CASE event.tag = "Resized" ->
            [self EXCEPT !.viewport =
                with_physical_size(SizeNew(event.new_size.width, event.new_size.height),
                                   window.scale_factor)]
      [] event.tag = "ScaleFactorChanged" ->
            [self EXCEPT !.viewport =
                with_physical_size(SizeNew(event.new_inner_size.width,
                                           event.new_inner_size.height),
                                   event.scale_factor)]
      [] event.tag = "CursorMoved" -> [self EXCEPT !.cursor_position = event.position]
      [] event.tag = "CursorLeft" ->
            [self EXCEPT !.cursor_position = PhysicalPositionNew(-1, -1)]
      [] event.tag = "ModifiersChanged" -> [self EXCEPT !.modifiers = event.new_modifiers]
      [] OTHER -> self

\* State::update (without the debug feature)
update(self, window, event) ==
    CASE event.tag = "Resized" ->
            LET size == SizeNew(event.new_size.width, event.new_size.height) IN
            [self EXCEPT !.viewport =
                with_physical_size(size, F64Mul(window.scale_factor, self.scale_factor))]
      [] event.tag = "ScaleFactorChanged" ->
            LET size == SizeNew(event.new_inner_size.width, event.new_inner_size.height) IN
            [self EXCEPT !.viewport =
                with_physical_size(size, F64Mul(event.scale_factor, self.scale_factor))]
      [] event.tag = "CursorMoved" -> [self EXCEPT !.cursor_position = event.position]
      [] event.tag = "CursorLeft" ->
            [self EXCEPT !.cursor_position = PhysicalPositionNew(-1, -1)]
      [] event.tag = "ModifiersChanged" -> [self EXCEPT !.modifiers = event.new_modifiers]
      [] OTHER -> self

\* a slip: the title set at every call
synchronize_platform_always(self, application, window) ==
    <<<<"set_title", application.title>>>>
    \o (IF self.mode # application.mode
        THEN <<<<"set_fullscreen", fullscreen(window.current_monitor, application.mode)>>>>
        ELSE <<>>)

\* State::synchronize: the calls it makes on the window that change it
synchronize_platform(self, application, window) ==
    (IF self.title # application.title
     THEN <<<<"set_title", application.title>>>>
     ELSE <<>>)
    \o (IF self.mode # application.mode
        THEN <<<<"set_fullscreen", fullscreen(window.current_monitor, application.mode)>>>>
        ELSE <<>>)

\* State::synchronize: the State it leaves
synchronize(self, application, window) ==
    LET new_title == application.title
        new_mode == application.mode
        new_scale_factor == application.scale_factor
        titled == IF self.title # new_title THEN [self EXCEPT !.title = new_title] ELSE self
        moded == IF titled.mode # new_mode THEN [titled EXCEPT !.mode = new_mode] ELSE titled
        coloured == [moded EXCEPT !.background_color = application.background_color]
    IN IF F64Ne(coloured.scale_factor, new_scale_factor)
       THEN LET size == window.inner_size IN
            [coloured EXCEPT
                !.viewport = with_physical_size(
                                SizeNew(size.width, size.height),
                                F64Mul(window.scale_factor, new_scale_factor)),
                !.scale_factor = new_scale_factor]
       ELSE coloured

\* the window after it changed as an event says
window_after(window, event) ==
    CASE event.tag = "Resized" -> [window EXCEPT !.inner_size = event.new_size]
      [] event.tag = "ScaleFactorChanged" ->
            [window EXCEPT !.scale_factor = event.scale_factor,
                           !.inner_size = event.new_inner_size]
      [] OTHER -> window

\* a window with its State just made, and nothing done since
StateRest ==
    /\ runningApp = [title |-> "Counter", mode |-> "Windowed",
                     background_color |-> "WHITE", scale_factor |-> F64Pow2(0)]
    /\ osWindow = [inner_size |-> SizeNew(800, 600), scale_factor |-> F64Pow2(0),
                   current_monitor |-> "monitor"]
    /\ windowState = new(runningApp, osWindow)
    /\ lastCall = [call |-> "new"]
    /\ inSync = TRUE

WidgetsRest == RichTextRest /\ StateRest

\* =========================================================================
\* wgpu/src/triangle/msaa.rs
\* =========================================================================
TextureFormats == {"Bgra8UnormSrgb", "Rgba8Unorm"}
Antialiasings == {"MSAAx2", "MSAAx4", "MSAAx8", "MSAAx16"}
Dims == 1..MaxDim

\* settings::Antialiasing::sample_count
SampleCountOf(antialiasing) ==
    CASE antialiasing = "MSAAx2" -> 2
      [] antialiasing = "MSAAx4" -> 4
      [] antialiasing = "MSAAx8" -> 8
      [] antialiasing = "MSAAx16" -> 16

\* Msaa::new
MsaaNew(fmt, antialiasing) ==
    [format |-> fmt, sample_count |-> SampleCountOf(antialiasing), target |-> None]

\* a slip: width and height exchanged, a single sample
BadDescriptor(fmt, samples, width, height) ==
    [size |-> [width |-> height, height |-> width, depth_or_array_layers |-> 1],
     mip_level_count |-> 1,
     sample_count |-> 1,
     dimension |-> "D2",
     format |-> fmt,
     usage |-> "RENDER_ATTACHMENT"]

\* the wgpu::TextureDescriptor built by Target::new
TextureDescriptor(fmt, samples, width, height) ==
    [size |-> [width |-> width, height |-> height, depth_or_array_layers |-> 1],
     mip_level_count |-> 1,
     sample_count |-> samples,
     dimension |-> "D2",
     format |-> fmt,
     usage |-> "RENDER_ATTACHMENT"]

\* Target::new: the Target made of the view the device handed out
TargetValue(view, width, height) ==
    [view |-> view, width |-> width, height |-> height]

\* slips: && for ||, a test that always reallocates, a test of the width alone
DimensionsDifferBoth(targets, width, height) ==
    targets.width # width /\ targets.height # height

DimensionsDifferAlways(targets, width, height) == TRUE

DimensionsDifferWidth(targets, width, height) == targets.width # width

\* the test of the Some(targets) arm of Msaa::target
DimensionsDiffer(targets, width, height) ==
    targets.width # width \/ targets.height # height

\* the match of Msaa::target: does this call allocate?
NeedsTarget(tgt, width, height) ==
    \/ tgt = None
    \/ tgt.tag = "Some" /\ DimensionsDiffer(tgt.v, width, height)

\* a slip: the overwritten Target is never dropped
LiveAfterLeak(lv, old) == lv

\* `self.target = Some(..)`: the assignment drops the value it overwrites

LiveAfterAssign(lv, old) ==
    IF old.tag = "Some" THEN lv \ {old.v.view} ELSE lv

MsaaInitWith(newArgsSet) ==
    /\ newArgs \in newArgsSet
    /\ format = MsaaNew(newArgs.format, newArgs.antialiasing).format
    /\ sample_count = MsaaNew(newArgs.format, newArgs.antialiasing).sample_count
    /\ target = MsaaNew(newArgs.format, newArgs.antialiasing).target
    /\ pc = "idle"
    /\ args = None
    /\ fresh = None
    /\ ret = None
    /\ textures = <<>>
    /\ live = {}
    /\ calls = <<>>

MsaaInit == MsaaInitWith([format : TextureFormats, antialiasing : Antialiasings])

\* the manager as constructed and never used, in the specifications of the
\* other components
MsaaRest == MsaaInitWith({[format |-> "Rgba8Unorm", antialiasing |-> "MSAAx4"]})

\* Msaa::target is entered and the match on self.target is evaluated
TargetBegin(width, height) ==
    /\ pc = "idle"
    /\ Len(calls) < MaxCalls
    /\ args' = Some([width |-> width, height |-> height,
                     before |-> target, texturesBefore |-> Len(textures)])
    /\ pc' = IF NeedsTarget(target, width, height) THEN "new" ELSE "return"
    /\ UNCHANGED <<format, sample_count, target, fresh, ret, textures, live,
                   calls, newArgs>>
    /\ UNCHANGED otherThanMsaa

\* Target::new(device, self.format, self.sample_count, width, height)
TargetNew ==
    /\ pc = "new"
    /\ LET view == Len(textures) + 1
       IN /\ textures' = Append(textures,
                 TextureDescriptor(format, sample_count, args.v.width, args.v.height))
          /\ fresh' = Some(TargetValue(view, args.v.width, args.v.height))
          /\ live' = live \cup {view}
    /\ pc' = "assign"
    /\ UNCHANGED <<format, sample_count, target, args, ret, calls, newArgs>>
    /\ UNCHANGED otherThanMsaa

\* self.target = Some(<the new Target>)
TargetAssign ==
    /\ pc = "assign"
    /\ target' = fresh
    /\ live' = LiveAfterAssign(live, target)
    /\ fresh' = None
    /\ pc' = "return"
    /\ UNCHANGED <<format, sample_count, args, ret, textures, calls, newArgs>>
    /\ UNCHANGED otherThanMsaa

\* let target = self.target.as_ref().unwrap(); &target.view
TargetReturn ==
    /\ pc = "return"
    /\ target.tag = "Some"
    /\ ret' = Some(target.v.view)
    /\ calls' = Append(calls,
          [width |-> args.v.width, height |-> args.v.height,
           before |-> args.v.before, after |-> target,
           texturesBefore |-> args.v.texturesBefore,
           texturesAfter |-> Len(textures),
           view |-> target.v.view])
    /\ args' = None
    /\ pc' = "idle"
    /\ UNCHANGED <<format, sample_count, target, fresh, textures, live, newArgs>>
    /\ UNCHANGED otherThanMsaa

Init ==
    /\ MsaaInit
    /\ LineHeightRest /\ PrimitiveRest /\ ContentRest /\ RendererRest
    /\ WidgetsRest

Next ==
    \/ \E width \in Dims, height \in Dims : TargetBegin(width, height)
    \/ TargetNew
    \/ TargetAssign
    \/ TargetReturn

Spec == Init /\ [][Next]_vars

\* =========================================================================
\* LineHeight::to_absolute applied to every line height and text size
\* =========================================================================
ToAbsolute(self, text_size) ==
    /\ absCall' = Some([self |-> self, text_size |-> text_size,
                        result |-> to_absolute(self, text_size)])
    /\ UNCHANGED hashed
    /\ UNCHANGED otherThanLineHeight

InitToAbsolute ==
    /\ MsaaRest /\ LineHeightRest /\ PrimitiveRest /\ ContentRest /\ RendererRest
    /\ WidgetsRest

NextToAbsolute ==
    \E self \in LineHeights, x \in F32Values : ToAbsolute(self, Pixels(x))

SpecToAbsolute == InitToAbsolute /\ [][NextToAbsolute]_vars

\* =========================================================================
\* <LineHeight as Hash>::hash: each of two fresh hashers is fed a line height
\* =========================================================================
HashLineHeight(h, self) ==
    /\ hashed[h] = None
    /\ hashed' = [hashed EXCEPT ![h] = Some([value |-> self, state |-> hash(self, <<>>)])]
    /\ UNCHANGED absCall
    /\ UNCHANGED otherThanLineHeight

InitHash ==
    /\ MsaaRest /\ LineHeightRest /\ PrimitiveRest /\ ContentRest /\ RendererRest
    /\ WidgetsRest

NextHash ==
    \E h \in Hashers, self \in LineHeights : HashLineHeight(h, self)

SpecHash == InitHash /\ [][NextHash]_vars

\* =========================================================================
\* The Primitive builders applied, in any order and nesting, to the
\* primitives of a draw pass
\* =========================================================================
\* a widget draws a leaf
Draw(leaf) ==
    /\ Len(scene) < MaxChildren
    /\ scene' = Append(scene, leaf)
    /\ UNCHANGED built
    /\ UNCHANGED otherThanPrimitive

\* the primitive drawn last is replaced by last.clip(bounds)
Clip(bounds) ==
    /\ scene # <<>>
    /\ BuiltAll(scene) < MaxBuilds
    /\ LET self == scene[Len(scene)] IN
       /\ built' = Some([fn |-> "clip", self |-> self, bounds |-> bounds,
                         result |-> clip(self, bounds)])
       /\ scene' = [scene EXCEPT ![Len(scene)] = clip(self, bounds)]
    /\ UNCHANGED otherThanPrimitive

\* the primitive drawn last is replaced by last.translate(translation)
Translate(translation) ==
    /\ scene # <<>>
    /\ BuiltAll(scene) < MaxBuilds
    /\ LET self == scene[Len(scene)] IN
       /\ built' = Some([fn |-> "translate", self |-> self,
                         translation |-> translation,
                         result |-> translate(self, translation)])
       /\ scene' = [scene EXCEPT ![Len(scene)] = translate(self, translation)]
    /\ UNCHANGED otherThanPrimitive

\* the primitives drawn so far are replaced by Primitive::group of them
Group ==
    /\ BuiltAll(scene) < MaxBuilds
    /\ built' = Some([fn |-> "group", primitives |-> scene, result |-> group(scene)])
    /\ scene' = <<group(scene)>>
    /\ UNCHANGED otherThanPrimitive

InitPrimitive ==
    /\ MsaaRest /\ LineHeightRest /\ PrimitiveRest /\ ContentRest /\ RendererRest
    /\ WidgetsRest

NextPrimitive ==
    \/ \E leaf \in Leaves : Draw(leaf)
    \/ \E bounds \in Rectangles : Clip(bounds)
    \/ \E translation \in Vectors : Translate(translation)
    \/ Group

SpecPrimitive == InitPrimitive /\ [][NextPrimitive]_vars

\* =========================================================================
\* Content::iter, and the iterator it returns driven to its end
\* =========================================================================
\* let it = content.iter();
Iter ==
    /\ iteration = None
    /\ iteration' = Some([it |-> iter(content), source |-> content,
                          yielded |-> <<>>, done |-> FALSE])
    /\ UNCHANGED content
    /\ UNCHANGED otherThanContent

\* it.next()
IterNext ==
    /\ iteration # None
    /\ ~iteration.v.done
    /\ LET step == next(iteration.v.it, content) IN
       iteration' = Some([iteration.v EXCEPT
           !.it = step.it,
           !.yielded = IF step.item = None THEN @ ELSE Append(@, step.item.v),
           !.done = (step.item = None)])
    /\ UNCHANGED content
    /\ UNCHANGED otherThanContent

InitContent ==
    /\ MsaaRest
    /\ LineHeightRest
    /\ PrimitiveRest
    /\ RendererRest
    /\ WidgetsRest
    /\ content \in Contents
    /\ iteration = None

NextContent == Iter \/ IterNext

SpecContent == InitContent /\ [][NextContent]_vars

\* =========================================================================
\* The default Renderer::measure_width
\* =========================================================================
\* renderer.measure_width(c, size, shaping), once in a behaviour: the call
\* reads nothing an earlier call could have left
MeasureWidth(c, size, shaping) ==
    /\ widthCall = None
    /\ LET call == measure_width_args(c, size, shaping)
           bounds == measure(renderer, call.content, call.size, call.line_height,
                             call.bounds, call.shaping)
       IN widthCall' = Some([content |-> c, size |-> size, shaping |-> shaping,
                             measured |-> <<call>>,
                             result |-> measure_width_result(bounds)])
    /\ UNCHANGED renderer
    /\ UNCHANGED otherThanRenderer

InitRenderer ==
    /\ MsaaRest
    /\ LineHeightRest
    /\ PrimitiveRest
    /\ ContentRest
    /\ WidgetsRest
    /\ renderer \in Renderers
    /\ widthCall = None

NextRenderer ==
    \E c \in Contents, size \in F32Values, shaping \in Shapings :
        MeasureWidth(c, size, shaping)

SpecRenderer == InitRenderer /\ [][NextRenderer]_vars

\* =========================================================================
\* One frame of a RichText: layout, then draw
\* =========================================================================
\* <RichText as Widget>::layout(&self, renderer, limits)
Layout ==
    /\ laidOut = None
    /\ LET size == unwrap_or(widget.size, default_size(frame.renderer))
           c == layout_content(widget.spans, frame.renderer)
           call == [content |-> c, size |-> size,
                    line_height |-> widget.line_height,
                    bounds |-> limits_max(frame.limits, widget.width, widget.height),
                    shaping |-> widget.shaping]
       IN laidOut' = Some([measured |-> <<call>>,
                           bounds |-> measure(frame.renderer, call.content, call.size,
                                              call.line_height, call.bounds,
                                              call.shaping)])
    /\ UNCHANGED <<widget, frame, drawn>>
    /\ UNCHANGED otherThanRichText

\* <RichText as Widget>::draw, which calls draw(renderer, style, layout,
\* &self.spans, self.size, self.line_height, theme, .., self.shaping)
DrawRichText ==
    /\ laidOut # None
    /\ drawn = None
    /\ drawn' = Some([filled |->
          <<draw_text(frame.renderer, frame.style, frame.bounds, widget.spans,
                      widget.size, widget.line_height, frame.theme,
                      widget.horizontal_alignment, widget.vertical_alignment,
                      widget.shaping)>>])
    /\ UNCHANGED <<widget, frame, laidOut>>
    /\ UNCHANGED otherThanRichText

InitRichText ==
    /\ MsaaRest /\ LineHeightRest /\ PrimitiveRest /\ ContentRest /\ RendererRest
    /\ StateRest
    /\ widget \in RichTexts
    /\ frame \in Frames
    /\ laidOut = None
    /\ drawn = None

NextRichText == Layout \/ DrawRichText

SpecRichText == InitRichText /\ [][NextRichText]_vars

\* =========================================================================
\* State: the window delivers events to State::update, the application
\* changes, and the run loop calls State::synchronize
\* =========================================================================
\* an event reaches State::update when the window changes as the event says
Deliver(event) ==
    /\ osWindow' = window_after(osWindow, event)
    /\ windowState' = update(windowState, osWindow', event)
    /\ lastCall' = [call |-> "update", event |-> event]
    /\ UNCHANGED <<runningApp, inSync>>
    /\ UNCHANGED otherThanState

Resized == \E event \in WindowEvents : event.tag = "Resized" /\ Deliver(event)

ScaleFactorChanged ==
    \E event \in WindowEvents : event.tag = "ScaleFactorChanged" /\ Deliver(event)

CursorMoved == \E event \in WindowEvents : event.tag = "CursorMoved" /\ Deliver(event)

CursorLeft == \E event \in WindowEvents : event.tag = "CursorLeft" /\ Deliver(event)

ModifiersChanged ==
    \E event \in WindowEvents : event.tag = "ModifiersChanged" /\ Deliver(event)

OtherEvent == \E event \in WindowEvents : event.tag = "Focused" /\ Deliver(event)

\* the application handles a message: what it answers changes
ApplicationUpdate ==
    /\ \E application \in Applications :
          /\ application # runningApp
          /\ runningApp' = application
    /\ inSync' = FALSE
    /\ lastCall' = [call |-> "Application::update"]
    /\ UNCHANGED <<windowState, osWindow>>
    /\ UNCHANGED otherThanState

\* State::synchronize
Synchronize ==
    /\ windowState' = synchronize(windowState, runningApp, osWindow)
    /\ lastCall' = [call |-> "synchronize",
                    platform |-> synchronize_platform(windowState, runningApp, osWindow),
                    inSync |-> inSync,
                    after |-> IF lastCall.call = "synchronize"
                              THEN Some(lastCall.platform)
                              ELSE None]
    /\ inSync' = TRUE
    /\ UNCHANGED <<runningApp, osWindow>>
    /\ UNCHANGED otherThanState

\* State::new, for any application and window
InitState ==
    /\ MsaaRest /\ LineHeightRest /\ PrimitiveRest /\ ContentRest /\ RendererRest
    /\ RichTextRest
    /\ runningApp \in Applications
    /\ osWindow \in Windows
    /\ windowState = new(runningApp, osWindow)
    /\ lastCall = [call |-> "new"]
    /\ inSync = TRUE

NextState ==
    \/ Resized
    \/ ScaleFactorChanged
    \/ CursorMoved
    \/ CursorLeft
    \/ ModifiersChanged
    \/ OtherEvent
    \/ ApplicationUpdate
    \/ Synchronize

SpecState == InitState /\ [][NextState]_vars

\* =========================================================================
\* Properties of the MSAA target manager (checked under Spec)
\* =========================================================================
CallDims(e) == <<e.width, e.height>>

TargetDims(t) == <<t.width, t.height>>

\* C1: when a call target(w, h) has returned, the held target exists, its
\* recorded (width, height) is exactly (w, h), the view handed back is the
\* held target's view, and that view was allocated for (w, h).
C1_ReturnedViewHasRequestedSize ==
    /\ \A i \in 1..Len(calls) :
          LET e == calls[i] IN
          /\ e.after.tag = "Some"
          /\ TargetDims(e.after.v) = CallDims(e)
          /\ e.view = e.after.v.view
          /\ e.view \in 1..Len(textures)
          /\ textures[e.view].size.width = e.width
          /\ textures[e.view].size.height = e.height
    /\ (pc = "idle" /\ Len(calls) > 0) =>
          /\ target = calls[Len(calls)].after
          /\ ret = Some(calls[Len(calls)].view)

\* C1 witness: a call with other dimensions than the call before it returned.
C1_Witness ==
    /\ pc = "idle"
    /\ Len(calls) >= 2
    /\ CallDims(calls[2]) # CallDims(calls[1])

\* C2: a call target(w, h) made while the held target has dimensions (w, h)
\* creates no texture, leaves the held target as it was and returns the view
\* the previous call returned.
C2_SameDimensionsReuseTarget ==
    \A i \in 1..Len(calls) :
        LET e == calls[i] IN
        (e.before.tag = "Some" /\ TargetDims(e.before.v) = CallDims(e)) =>
            /\ e.texturesAfter = e.texturesBefore
            /\ e.after = e.before
            /\ e.view = e.before.v.view
            /\ i > 1 /\ e.view = calls[i - 1].view

\* C2 witness: three completed calls in a row with the same dimensions.
C2_Witness ==
    /\ pc = "idle"
    /\ Len(calls) >= 3
    /\ CallDims(calls[1]) = CallDims(calls[2])
    /\ CallDims(calls[2]) = CallDims(calls[3])

DimensionChanges ==
    {i \in 2..Len(calls) : CallDims(calls[i]) # CallDims(calls[i - 1])}

\* C3: the manager starts with no target; the first call, and every later
\* call whose dimensions differ from the held target's, creates exactly one
\* texture and every other call none, so that the number of textures created
\* is one plus the number of dimension changes between consecutive calls.
C3_AllocationsCountDimensionChanges ==
    /\ (pc = "idle" /\ Len(calls) = 0) => (target = None /\ textures = <<>>)
    /\ \A i \in 1..Len(calls) :
          LET e == calls[i] IN
          /\ (i = 1) = (e.before = None)
          /\ e.texturesAfter - e.texturesBefore =
                IF e.before = None \/ TargetDims(e.before.v) # CallDims(e)
                THEN 1 ELSE 0
    /\ (pc = "idle" /\ Len(calls) > 0) =>
          Len(textures) = 1 + Cardinality(DimensionChanges)

\* C3 witness: three calls, one of them a dimension change, one a repeat.
C3_Witness ==
    /\ pc = "idle"
    /\ Len(calls) >= 3
    /\ Cardinality(DimensionChanges) = 1
    /\ Len(textures) = 2

\* C4 as stated: at every point, also inside a replacing call, at most one
\* target is live.
C4_AtMostOneLiveAlways == Cardinality(live) <= 1

\* C4 amended: between calls, and whenever a call is not between Target::new
\* and the assignment to self.target, at most one target is live, and between
\* calls it is the held one; a replacing call creates the new target while the
\* old one is still held, so that two targets (never more) are live until the
\* assignment drops the old one, which happens before the call returns.
C4_AtMostOneLiveOutsideReplacement ==
    /\ Cardinality(live) <= 2
    /\ pc # "assign" => Cardinality(live) <= 1
    /\ pc = "assign" => live = {fresh.v.view} \cup
                                 (IF target.tag = "Some" THEN {target.v.view} ELSE {})
    /\ pc \in {"idle", "return"} =>
          live = IF target.tag = "Some" THEN {target.v.view} ELSE {}

\* C4 witness: inside a replacing call, after Target::new and before the
\* assignment, the old and the new target are both live.
C4_Witness ==
    /\ pc = "assign"
    /\ target.tag = "Some"
    /\ Cardinality(live) = 2

\* C5: format and sample count stay what Msaa::new made of its arguments, and
\* every texture created has that format, that sample count and the extents
\* of the call that created it.
C5_FixedFormatAndSampleCount ==
    /\ format = newArgs.format
    /\ sample_count = SampleCountOf(newArgs.antialiasing)
    /\ \A t \in 1..Len(textures) :
          /\ textures[t].format = newArgs.format
          /\ textures[t].sample_count = SampleCountOf(newArgs.antialiasing)
    /\ \A i \in 1..Len(calls) :
          LET e == calls[i] IN
          e.texturesAfter # e.texturesBefore =>
              /\ textures[e.texturesAfter].size.width = e.width
              /\ textures[e.texturesAfter].size.height = e.height
              /\ textures[e.texturesAfter].size.depth_or_array_layers = 1
    /\ pc = "assign" =>
          /\ textures[Len(textures)].size.width = args.v.width
          /\ textures[Len(textures)].size.height = args.v.height

\* C5 witness: two textures of different extents have been created.
C5_Witness ==
    /\ pc = "idle"
    /\ Len(textures) >= 2
    /\ textures[1].size # textures[2].size
    /\ textures[2].size.width # textures[2].size.height

\* =========================================================================
\* Properties of LineHeight
\* =========================================================================
\* C6 (under SpecToAbsolute): to_absolute returns an f32 in Pixels for every
\* line height and text size; for Relative(f) and Pixels(s) it is Pixels(f * s),
\* for Absolute(p) it is p, whatever the text size.
C6_ToAbsoluteResolves ==
    absCall.tag = "Some" =>
        LET c == absCall.v IN
        /\ DOMAIN c.result = {"v0"}
        /\ IsF32(c.result.v0)
        /\ c.self.tag = "Relative" =>
              c.result = Pixels(FMul(c.self.factor, c.text_size.v0))
        /\ c.self.tag = "Absolute" =>
              /\ c.result = c.self.pixels
              /\ \A x \in F32Values : to_absolute(c.self, Pixels(x)) = c.result

\* C6 witness: a relative line height of 2 resolved at text size 2 (to 4), a
\* product that is neither of the operands.
C6_Witness ==
    /\ absCall.tag = "Some"
    /\ absCall.v.self = Relative(F32Pow2(0, 1))
    /\ absCall.v.text_size = Pixels(F32Pow2(0, 1))
    /\ absCall.v.result = Pixels(F32Pow2(0, 2))

\* C7 (under SpecHash): for every x, Relative(x) and Absolute(Pixels(x))
\* compare unequal and feed different data to a hasher: the first write is the
\* u8 tag, 0 for Relative and 1 for Absolute, the second the same payload bits.
C7_HashDiscriminatesVariant ==
    \A g \in Hashers, h \in Hashers :
        (/\ hashed[g].tag = "Some"
         /\ hashed[h].tag = "Some"
         /\ hashed[g].v.value.tag = "Relative"
         /\ hashed[h].v.value = Absolute(Pixels(hashed[g].v.value.factor))) =>
            /\ hashed[g].v.state # hashed[h].v.state
            /\ ~LineHeightEq(hashed[g].v.value, hashed[h].v.value)
            /\ Len(hashed[g].v.state) = 2
            /\ Len(hashed[h].v.state) = 2
            /\ hashed[g].v.state[1] = [write |-> "u8", value |-> 0]
            /\ hashed[h].v.state[1] = [write |-> "u8", value |-> 1]
            /\ hashed[g].v.state[2] = hashed[h].v.state[2]
            /\ hashed[g].v.state[2] =
                   [write |-> "u32", value |-> ToBits(hashed[g].v.value.factor)]

\* C7 witness: Relative(2) and Absolute(Pixels(2)) have both been hashed.
C7_Witness ==
    /\ hashed["a"] # None
    /\ hashed["b"] # None
    /\ hashed["a"].v.value = Relative(F32Pow2(0, 1))
    /\ hashed["b"].v.value = Absolute(Pixels(F32Pow2(0, 1)))

\* =========================================================================
\* Properties of the Primitive builders
\* =========================================================================
\* C8 (under SpecPrimitive): p.clip(b) is the Clip of bounds b whose content
\* is p, p.translate(v) the Translate of translation v whose content is p, and
\* group(children) the Group of exactly those children in that order, whatever
\* was nested in p or the children before.
C8_BuildersWrapUnchanged ==
    built.tag = "Some" =>
        LET c == built.v IN
        /\ c.fn = "clip" =>
              /\ DOMAIN c.result = {"kind", "bounds", "content"}
              /\ c.result.kind = "Clip"
              /\ c.result.bounds = c.bounds
              /\ c.result.content = c.self
        /\ c.fn = "translate" =>
              /\ DOMAIN c.result = {"kind", "translation", "content"}
              /\ c.result.kind = "Translate"
              /\ c.result.translation = c.translation
              /\ c.result.content = c.self
        /\ c.fn = "group" =>
              /\ DOMAIN c.result = {"kind", "primitives"}
              /\ c.result.kind = "Group"
              /\ Len(c.result.primitives) = Len(c.primitives)
              /\ \A i \in 1..Len(c.primitives) :
                    c.result.primitives[i] = c.primitives[i]

\* C8 witness: a clip of a group of two different primitives, the first of
\* them itself a translation.
C8_Witness ==
    /\ built.tag = "Some"
    /\ built.v.fn = "clip"
    /\ built.v.self.kind = "Group"
    /\ Len(built.v.self.primitives) = 2
    /\ built.v.self.primitives[1].kind = "Translate"
    /\ built.v.self.primitives[2].kind = "Custom"
    /\ built.v.result.content = built.v.self
    /\ scene = <<built.v.result>>

\* =========================================================================
\* Properties of Content and Renderer
\* =========================================================================
ExpectedItems(c) == IF c.tag = "Span" THEN <<c.span>> ELSE c.spans

\* C9 (under SpecContent): the items yielded so far are the first spans of
\* the content in order, and once the iterator is exhausted they are exactly
\* the one span of a Content::Span, or all the spans of a Content::Spans in
\* their order (none for an empty one); the content is as it was.
C9_IterYieldsSpansInOrder ==
    iteration.tag = "Some" =>
        LET i == iteration.v IN
        /\ content = i.source
        /\ Len(i.yielded) <= Len(ExpectedItems(i.source))
        /\ \A k \in 1..Len(i.yielded) : i.yielded[k] = ExpectedItems(i.source)[k]
        /\ i.done => i.yielded = ExpectedItems(i.source)

\* C9 witness: a Content::Spans of three spans, not all the same, iterated to
\* the end.
C9_Witness ==
    /\ iteration.tag = "Some"
    /\ iteration.v.done
    /\ content.tag = "Spans"
    /\ Len(content.spans) = 3
    /\ content.spans[1] # content.spans[2]
    /\ content.spans[2] # content.spans[3]
    /\ Len(iteration.v.yielded) = 3

\* C10 (under SpecRenderer): measure_width(content, size, shaping) calls
\* measure once, with content, size, LineHeight::Absolute(Pixels(size)),
\* Size::INFINITY and shaping, and returns the width of what measure returned.
C10_MeasureWidthIsMeasure ==
    widthCall.tag = "Some" =>
        LET c == widthCall.v IN
        /\ c.measured = <<[content |-> c.content, size |-> c.size,
                           line_height |-> Absolute(Pixels(c.size)),
                           bounds |-> [width |-> F32Inf(0), height |-> F32Inf(0)],
                           shaping |-> c.shaping]>>
        /\ c.result = measure(renderer, c.content, c.size, Absolute(Pixels(c.size)),
                              [width |-> F32Inf(0), height |-> F32Inf(0)],
                              c.shaping).width

\* C10 witness: the width of two spans measured at size 2 with advanced
\* shaping.
C10_Witness ==
    /\ widthCall.tag = "Some"
    /\ widthCall.v.content.tag = "Spans"
    /\ Len(widthCall.v.content.spans) = 2
    /\ widthCall.v.size = F32Pow2(0, 1)
    /\ widthCall.v.shaping = "Advanced"
    /\ Len(widthCall.v.measured) = 1

\* =========================================================================
\* Properties of RichText (checked under SpecRichText)
\* =========================================================================
\* C11: each drawn span has the colour of its own resolved appearance, and the
\* ambient renderer::Style's text_color when that appearance has none.
C11_SpanColourResolvedPerSpan ==
    drawn.tag = "Some" =>
        /\ Len(drawn.v.filled) = 1
        /\ Len(drawn.v.filled[1].content.spans) = Len(widget.spans)
        /\ \A i \in 1..Len(widget.spans) :
              LET resolved == frame.theme[widget.spans[i].style].color
                  colour == drawn.v.filled[1].content.spans[i].color
              IN /\ resolved = None => colour = frame.style.text_color
                 /\ resolved # None => colour = resolved.v

\* C11 witness: a drawn paragraph whose first span resolves to no colour and
\* whose second span resolves to red, under a black ambient text colour.
C11_Witness ==
    /\ drawn.tag = "Some"
    /\ Len(widget.spans) >= 2
    /\ frame.style.text_color = "BLACK"
    /\ frame.theme[widget.spans[1].style].color = None
    /\ frame.theme[widget.spans[2].style].color = Some("RED")
    /\ drawn.v.filled[1].content.spans[1].color = "BLACK"
    /\ drawn.v.filled[1].content.spans[2].color = "RED"

\* C12: the bounds handed to fill_text are the layout bounds with the origin
\* alone replaced: x is the left edge, the horizontal centre or the right
\* edge, y the top, the vertical centre or the bottom, by the alignments.
C12_AlignmentMovesOriginOnly ==
    drawn.tag = "Some" =>
        LET b == frame.bounds
            t == drawn.v.filled[1]
        IN /\ DOMAIN t.bounds = {"x", "y", "width", "height"}
           /\ t.bounds.width = b.width
           /\ t.bounds.height = b.height
           /\ widget.horizontal_alignment = "Left" => t.bounds.x = b.x
           /\ widget.horizontal_alignment = "Center" => 2 * t.bounds.x = 2 * b.x + b.width
           /\ widget.horizontal_alignment = "Right" => t.bounds.x = b.x + b.width
           /\ widget.vertical_alignment = "Top" => t.bounds.y = b.y
           /\ widget.vertical_alignment = "Center" => 2 * t.bounds.y = 2 * b.y + b.height
           /\ widget.vertical_alignment = "Bottom" => t.bounds.y = b.y + b.height

\* C12 witness: bounds {x: 10, y: 20, width: 100, height: 50} drawn aligned
\* right and bottom, with origin (110, 70).
C12_Witness ==
    /\ drawn.tag = "Some"
    /\ frame.bounds = [x |-> 10, y |-> 20, width |-> 100, height |-> 50]
    /\ widget.horizontal_alignment = "Right"
    /\ widget.vertical_alignment = "Bottom"
    /\ drawn.v.filled[1].bounds = [x |-> 110, y |-> 70, width |-> 100, height |-> 50]

\* C13: a draw call makes exactly one fill_text call, whose content is a
\* Content::Spans of one span per span of the widget, in the widget's order and
\* with its string, the empty string and the empty list of spans included.
C13_OneFillTextOneSpanEach ==
    drawn.tag = "Some" =>
        /\ Len(drawn.v.filled) = 1
        /\ drawn.v.filled[1].content.tag = "Spans"
        /\ Len(drawn.v.filled[1].content.spans) = Len(widget.spans)
        /\ \A i \in 1..Len(widget.spans) :
              drawn.v.filled[1].content.spans[i].content = widget.spans[i].content

\* C13 witness: a drawn paragraph of two spans, the first with no text.
C13_Witness ==
    /\ drawn.tag = "Some"
    /\ Len(widget.spans) = 2
    /\ widget.spans[1].content = ""
    /\ widget.spans[2].content = "Hello"
    /\ Len(drawn.v.filled[1].content.spans) = 2

\* C15: what layout measures and what draw fills agree in all that decides
\* the size: the strings and fonts of the spans in order (the span's font, or
\* the renderer's default), the text size (the widget's, or the renderer's
\* default), the line height and the shaping.
C15_LayoutAndDrawAgree ==
    (laidOut.tag = "Some" /\ drawn.tag = "Some") =>
        /\ Len(laidOut.v.measured) = 1
        /\ Len(drawn.v.filled) = 1
        /\ LET m == laidOut.v.measured[1]
               t == drawn.v.filled[1]
           IN /\ m.content.tag = "Spans"
              /\ t.content.tag = "Spans"
              /\ Len(m.content.spans) = Len(t.content.spans)
              /\ Len(m.content.spans) = Len(widget.spans)
              /\ \A i \in 1..Len(widget.spans) :
                    /\ m.content.spans[i].content = t.content.spans[i].content
                    /\ m.content.spans[i].content = widget.spans[i].content
                    /\ m.content.spans[i].font = t.content.spans[i].font
                    /\ m.content.spans[i].font =
                          IF widget.spans[i].font = None
                          THEN default_font(frame.renderer)
                          ELSE widget.spans[i].font.v
              /\ m.size = t.size
              /\ m.size = IF widget.size = None
                          THEN default_size(frame.renderer)
                          ELSE widget.size.v
              /\ m.line_height = t.line_height
              /\ m.line_height = widget.line_height
              /\ m.shaping = t.shaping
              /\ m.shaping = widget.shaping

\* C15 witness: a paragraph laid out and drawn at the default size, one span
\* in its own font and one in the default font, in a colour layout did not use.
C15_Witness ==
    /\ laidOut.tag = "Some"
    /\ drawn.tag = "Some"
    /\ widget.size = None
    /\ Len(widget.spans) = 2
    /\ widget.spans[1].font = Some("MONOSPACE")
    /\ widget.spans[2].font = None
    /\ drawn.v.filled[1].content.spans[1].color # laidOut.v.measured[1].content.spans[1].color

\* =========================================================================
\* Properties of State (checked under SpecState)
\* =========================================================================
\* C14: every State::synchronize step calls set_title exactly when the
\* application's title differs from the State's title, and set_fullscreen
\* exactly when its mode differs from the State's mode, each at most once and
\* with the application's value; it leaves the State's title, mode, background
\* colour and scale factor equal to the application's; and it makes no call on
\* the platform when the application has not changed since the State last
\* read it.
C14_PlatformCallsOnlyOnChange ==
    [][lastCall'.call = "synchronize" =>
          LET platform == lastCall'.platform
              titles == {i \in DOMAIN platform : platform[i][1] = "set_title"}
              modes == {i \in DOMAIN platform : platform[i][1] = "set_fullscreen"}
          IN /\ titles \cup modes = DOMAIN platform
             /\ Cardinality(titles) <= 1
             /\ Cardinality(modes) <= 1
             /\ (titles # {}) <=> (windowState.title # runningApp.title)
             /\ (modes # {}) <=> (windowState.mode # runningApp.mode)
             /\ \A i \in titles : platform[i][2] = runningApp.title
             /\ \A i \in modes :
                   platform[i][2] = fullscreen(osWindow.current_monitor, runningApp.mode)
             /\ windowState'.title = runningApp'.title
             /\ windowState'.mode = runningApp'.mode
             /\ windowState'.background_color = runningApp'.background_color
             /\ windowState'.scale_factor = runningApp'.scale_factor
             /\ inSync => platform = <<>>
      ]_vars

\* C14 witness: a synchronize that set the title and the mode, followed at
\* once by a synchronize that made no call.
C14_Witness ==
    /\ lastCall.call = "synchronize"
    /\ lastCall.inSync
    /\ lastCall.platform = <<>>
    /\ lastCall.after =
          Some(<<<<"set_title", "Counter - 1">>,
                 <<"set_fullscreen", fullscreen("monitor", "Fullscreen")>>>>)
    /\ windowState.title = "Counter - 1"
    /\ windowState.mode = "Fullscreen"

\* C16: the viewport's scale factor is always the window's scale factor times
\* the scale factor the State holds, and its physical size the window's inner
\* size; events of the cursor and of the modifiers leave the viewport as it was.
C16_ViewportFollowsWindow ==
    /\ [](/\ windowState.viewport.scale_factor =
               F64Mul(osWindow.scale_factor, windowState.scale_factor)
          /\ windowState.viewport.physical_size = osWindow.inner_size)
    /\ [][(/\ lastCall'.call = "update"
           /\ lastCall'.event.tag \in {"CursorMoved", "CursorLeft", "ModifiersChanged"})
          => windowState'.viewport = windowState.viewport]_vars

\* C16 witness: the window moves to a screen of scale factor 2 and takes the
\* size 1600 x 1200 under an application of scale factor 2: the viewport has
\* that size and the scale factor 4.
C16_Witness ==
    /\ lastCall.call = "update"
    /\ lastCall.event = [tag |-> "ScaleFactorChanged", scale_factor |-> F64Pow2(1),
                         new_inner_size |-> SizeNew(1600, 1200)]
    /\ osWindow.scale_factor = F64Pow2(1)
    /\ osWindow.inner_size = SizeNew(1600, 1200)
    /\ windowState.scale_factor = F64Pow2(1)
    /\ windowState.viewport = with_physical_size(SizeNew(1600, 1200), F64Pow2(2))

====
